---------------------------- MODULE Spec2Model ----------------------------
(***************************************************************************)
(* TimeLoggingIterator (cellxgene_census.experimental.util):  an iterator  *)
(* wrapper that logs the time taken for each item processed.               *)
(*                                                                         *)
(* The wrapper is modelled line by line: pc is the position inside         *)
(* __next__.  The upstream iterator is a script of outcomes (yield a       *)
(* value, raise StopIteration, raise another error); past the end of the   *)
(* script it raises StopIteration forever.  The wall clock time.time() is  *)
(* read in ticks of 2^-12 s, values that a binary float holds exactly, so  *)
(* that end_time - start_time is exact and round(., 3) is the correctly    *)
(* rounded, ties-to-even result that CPython computes.                     *)
(***************************************************************************)
EXTENDS Integers, Sequences, FiniteSets, TLC

(* ------------------------------ bounds -------------------------------- *)
MaxLen == 3
MaxCalls == 4

(* ------------------------- inputs of the model ------------------------ *)
Values == {"a", "b", "c"}
Errors == {"OSError"}
Names == {"demo", "obs"}
ClockValues == {0, 256}

TicksPerSecond == 2^12
Digits == 3
Scale == 10^Digits

NoValue == "-"
NoTime == -1
NoElapsed == [neg |-> FALSE, ms |-> 0]

Yield(v) == [kind |-> "value", val |-> v]
StopIteration == [kind |-> "StopIteration", val |-> NoValue]
Raise(e) == [kind |-> "error", val |-> e]
Outcomes == {Yield(v) : v \in Values} \cup {StopIteration} \cup {Raise(e) : e \in Errors}

Scripts == UNION {[1..n -> Outcomes] : n \in 0..MaxLen}

VARIABLES iterator, name, logger, item_number, pc, start_time, value,
          end_time, elapsed_time, seen, upstream, calls, iter_result

vars == <<iterator, name, logger, item_number, pc, start_time, value,
          end_time, elapsed_time, seen, upstream, calls, iter_result>>

fields == <<iterator, name, logger, item_number>>
locals == <<start_time, value, end_time, elapsed_time>>
history == <<seen, upstream, calls>>
iterhist == <<iter_result>>

(* --------------------------- pure functions --------------------------- *)
Abs(n) == IF n < 0 THEN -n ELSE n

\* round(x, 3) of the float x = d / TicksPerSecond: sign and magnitude in
\* thousandths, rounded to nearest with ties to even; the sign is kept when
\* the magnitude rounds to zero (-0.0).
RoundHalfEven(num, den) ==
    LET q == num \div den
        r == num % den
    IN  IF 2 * r > den THEN q + 1
        ELSE IF 2 * r < den THEN q
        ELSE IF q % 2 = 0 THEN q ELSE q + 1

round(d) == [neg |-> d < 0, ms |-> RoundHalfEven(Abs(d) * Scale, TicksPerSecond)]

\* repr() of the float e.ms / 1000: the shortest decimal that reads back.
RECURSIVE StripZeros(_)
StripZeros(s) ==
    IF Len(s) > 1 /\ s[Len(s)] = "0" THEN StripZeros(SubSeq(s, 1, Len(s) - 1)) ELSE s

RECURSIVE Concat(_)
Concat(s) == IF s = <<>> THEN "" ELSE Head(s) \o Concat(Tail(s))

FracDigits(f) ==
    Concat(StripZeros(<<ToString(f \div 100), ToString((f \div 10) % 10), ToString(f % 10)>>))

\* f"{elapsed_time:.3f}": always three decimals
FormatFloat_Fixed3(e) ==
    (IF e.neg THEN "-" ELSE "") \o ToString(e.ms \div Scale) \o "."
        \o ToString((e.ms % Scale) \div 100) \o ToString(((e.ms % Scale) \div 10) % 10)
        \o ToString(e.ms % 10)

FormatFloat(e) ==
    (IF e.neg THEN "-" ELSE "") \o ToString(e.ms \div Scale) \o "." \o FracDigits(e.ms % Scale)

\* f"{self.name} iterator: {elapsed_time}s for item #{self.item_number}"
Message(nm, e, k) ==
    nm \o " iterator: " \o FormatFloat(e) \o "s for item #" \o ToString(k)

\* next(self.iterator): what the upstream does when asked once more.
UpstreamNext(it) ==
    IF it.pos < Len(it.script) THEN it.script[it.pos + 1] ELSE StopIteration

Advance(it) ==
    [it EXCEPT !.pos = IF it.pos < Len(it.script) THEN it.pos + 1 ELSE it.pos]

(* ------------------------------- Init --------------------------------- *)
Init ==
    /\ iterator \in {[script |-> s, pos |-> 0] : s \in Scripts}
    /\ name \in Names
    /\ logger = <<>>
    /\ item_number = 0
    /\ pc = "idle"
    /\ start_time = NoTime
    /\ end_time = NoTime
    /\ value = NoValue
    /\ elapsed_time = NoElapsed
    /\ seen = <<>>
    /\ upstream = <<>>
    /\ calls = 0
    /\ iter_result = [ret |-> "none", at |-> 0]

(* ------------------------------ actions ------------------------------- *)
\* __iter__ that restarts the numbering
Iter_Reset ==
    /\ pc = "idle"
    /\ iter_result' = [ret |-> "self", at |-> item_number]
    /\ item_number' = 0
    /\ UNCHANGED <<iterator, name, logger, pc, locals, history>>

\* __iter__: return self
Iter ==
    /\ pc = "idle"
    /\ iter_result' = [ret |-> "self", at |-> item_number]
    /\ UNCHANGED <<fields, pc, locals, history>>

\* __next__, line 21: start_time = time.time()
StartTime ==
    /\ pc = "idle"
    /\ calls < MaxCalls
    /\ calls' = calls + 1
    /\ \E t \in ClockValues : start_time' = t
    /\ pc' = "try"
    /\ UNCHANGED <<fields, value, end_time, elapsed_time, seen, upstream, iterhist>>

\* line 23 with a look-ahead: the element after the one returned is requested too
TryNext_Buffering ==
    /\ pc = "try"
    /\ UpstreamNext(iterator).kind = "value"
    /\ value' = UpstreamNext(iterator).val
    /\ iterator' = Advance(Advance(iterator))
    /\ upstream' = upstream \o <<UpstreamNext(iterator), UpstreamNext(Advance(iterator))>>
    /\ pc' = "end_time"
    /\ UNCHANGED <<name, logger, item_number, start_time, end_time, elapsed_time,
                   seen, calls, iterhist>>

\* line 23: value = next(self.iterator) returns an element
TryNext ==
    /\ pc = "try"
    /\ UpstreamNext(iterator).kind = "value"
    /\ value' = UpstreamNext(iterator).val
    /\ iterator' = Advance(iterator)
    /\ upstream' = Append(upstream, UpstreamNext(iterator))
    /\ pc' = "end_time"
    /\ UNCHANGED <<name, logger, item_number, start_time, end_time, elapsed_time,
                   seen, calls, iterhist>>

\* exhaustion handled after the increment
ExceptStopIteration_Counting ==
    /\ pc = "try"
    /\ UpstreamNext(iterator).kind = "StopIteration"
    /\ iterator' = Advance(iterator)
    /\ upstream' = Append(upstream, UpstreamNext(iterator))
    /\ seen' = Append(seen, StopIteration)
    /\ item_number' = item_number + 1
    /\ start_time' = NoTime
    /\ pc' = "idle"
    /\ UNCHANGED <<name, logger, value, end_time, elapsed_time, calls, iterhist>>

\* the log record written in a finally clause, so on exhaustion too
ExceptStopIteration_Logging ==
    /\ pc = "try"
    /\ UpstreamNext(iterator).kind = "StopIteration"
    /\ iterator' = Advance(iterator)
    /\ upstream' = Append(upstream, UpstreamNext(iterator))
    /\ seen' = Append(seen, StopIteration)
    /\ logger' = Append(logger, [level |-> "WARNING",
                                 msg |-> Message(name, NoElapsed, item_number),
                                 elapsed |-> NoElapsed,
                                 item |-> item_number])
    /\ start_time' = NoTime
    /\ pc' = "idle"
    /\ UNCHANGED <<name, item_number, value, end_time, elapsed_time, calls, iterhist>>

\* lines 24-25: except StopIteration: raise
ExceptStopIteration ==
    /\ pc = "try"
    /\ UpstreamNext(iterator).kind = "StopIteration"
    /\ iterator' = Advance(iterator)
    /\ upstream' = Append(upstream, UpstreamNext(iterator))
    /\ seen' = Append(seen, StopIteration)
    /\ start_time' = NoTime
    /\ pc' = "idle"
    /\ UNCHANGED <<name, logger, item_number, value, end_time, elapsed_time,
                   calls, iterhist>>

\* except Exception: every upstream error ends the iteration
PropagateError_AsStop ==
    /\ pc = "try"
    /\ UpstreamNext(iterator).kind = "error"
    /\ iterator' = Advance(iterator)
    /\ upstream' = Append(upstream, UpstreamNext(iterator))
    /\ seen' = Append(seen, StopIteration)
    /\ start_time' = NoTime
    /\ pc' = "idle"
    /\ UNCHANGED <<name, logger, item_number, value, end_time, elapsed_time,
                   calls, iterhist>>

\* line 23: next(self.iterator) raises an exception no clause catches
PropagateError ==
    /\ pc = "try"
    /\ UpstreamNext(iterator).kind = "error"
    /\ iterator' = Advance(iterator)
    /\ upstream' = Append(upstream, UpstreamNext(iterator))
    /\ seen' = Append(seen, UpstreamNext(iterator))
    /\ start_time' = NoTime
    /\ pc' = "idle"
    /\ UNCHANGED <<name, logger, item_number, value, end_time, elapsed_time,
                   calls, iterhist>>

\* line 27: end_time = time.time()
EndTime ==
    /\ pc = "end_time"
    /\ \E t \in ClockValues : end_time' = t
    /\ pc' = "round"
    /\ UNCHANGED <<fields, start_time, value, elapsed_time, history, iterhist>>

\* line 28: elapsed_time = round(end_time - start_time, 3)
Elapsed ==
    /\ pc = "round"
    /\ elapsed_time' = round(end_time - start_time)
    /\ pc' = "count"
    /\ UNCHANGED <<fields, start_time, value, end_time, history, iterhist>>

\* self.item_number = 1
Count_Assign ==
    /\ pc = "count"
    /\ item_number' = 1
    /\ pc' = "log"
    /\ UNCHANGED <<iterator, name, logger, locals, history, iterhist>>

\* line 29: self.item_number += 1
Count ==
    /\ pc = "count"
    /\ item_number' = item_number + 1
    /\ pc' = "log"
    /\ UNCHANGED <<iterator, name, logger, locals, history, iterhist>>

\* the record numbered from 0
Warning_ZeroBased ==
    /\ pc = "log"
    /\ logger' = Append(logger, [level |-> "WARNING",
                                 msg |-> Message(name, elapsed_time, item_number - 1),
                                 elapsed |-> elapsed_time,
                                 item |-> item_number - 1])
    /\ pc' = "return"
    /\ UNCHANGED <<iterator, name, item_number, locals, history, iterhist>>

\* line 30: self.logger.warning(f"...")
Warning ==
    /\ pc = "log"
    /\ logger' = Append(logger, [level |-> "WARNING",
                                 msg |-> Message(name, elapsed_time, item_number),
                                 elapsed |-> elapsed_time,
                                 item |-> item_number])
    /\ pc' = "return"
    /\ UNCHANGED <<iterator, name, item_number, locals, history, iterhist>>

\* the return statement left out: the caller receives None
Return_NoValue ==
    /\ pc = "return"
    /\ seen' = Append(seen, Yield(NoValue))
    /\ start_time' = NoTime
    /\ end_time' = NoTime
    /\ value' = NoValue
    /\ elapsed_time' = NoElapsed
    /\ pc' = "idle"
    /\ UNCHANGED <<fields, upstream, calls, iterhist>>

\* line 31: return value
Return ==
    /\ pc = "return"
    /\ seen' = Append(seen, Yield(value))
    /\ start_time' = NoTime
    /\ end_time' = NoTime
    /\ value' = NoValue
    /\ elapsed_time' = NoElapsed
    /\ pc' = "idle"
    /\ UNCHANGED <<fields, upstream, calls, iterhist>>

Next ==
    \/ Iter
    \/ StartTime
    \/ TryNext
    \/ ExceptStopIteration
    \/ PropagateError
    \/ EndTime
    \/ Elapsed
    \/ Count
    \/ Warning
    \/ Return

Spec == Init /\ [][Next]_vars

TypeOK ==
    /\ item_number \in 0..MaxCalls
    /\ pc \in {"idle", "try", "end_time", "round", "count", "log", "return"}
    /\ calls \in 0..MaxCalls


(* ------------------------ derived quantities -------------------------- *)
Last(s) == s[Len(s)]
IsYield(o) == o.kind = "value"
IsStop(o) == o.kind = "StopIteration"
IsError(o) == o.kind = "error"
ValuesOf(s) == LET y == SelectSeq(s, IsYield) IN [i \in 1..Len(y) |-> y[i].val]
YieldCount(s) == Len(SelectSeq(s, IsYield))

\* the elements handed to the caller so far, and the elements the upstream
\* has handed to the wrapper so far
Returned == ValuesOf(seen)
Fetched == YieldCount(upstream)

IsFiniteSource == \A i \in 1..Len(iterator.script) : IsYield(iterator.script[i])
SourceLen == Len(iterator.script)
Idle == pc = "idle"
Drained == Idle /\ seen # <<>> /\ IsStop(Last(seen))
IsPrefix(s, t) == Len(s) <= Len(t) /\ \A i \in 1..Len(s) : s[i] = t[i]
ZeroElapsed == [neg |-> FALSE, ms |-> 0]
NonNegative(e) == ~(e.neg /\ e.ms > 0)

(* ------------------------------- claims ------------------------------- *)

\* C1: over a finite source of N elements the wrapper returns exactly the
\* source's elements, unmodified and in order: at every moment the elements
\* returned so far are a prefix of the source's, and once the wrapper has
\* signalled exhaustion they are all N of them.
C1_SameElements ==
    IsFiniteSource =>
        /\ IsPrefix(Returned, ValuesOf(iterator.script))
        /\ Drained => Returned = ValuesOf(iterator.script)

C1_Witness ==
    /\ IsFiniteSource
    /\ SourceLen >= 2
    /\ Drained
    /\ Len(Returned) = SourceLen

\* C2: the k-th log record is emitted after the k-th successful upstream
\* retrieval and before the k-th element is returned, it carries position k,
\* and a drained finite source of N elements leaves exactly N records.
C2_OneRecordPerElement ==
    /\ Len(Returned) <= Len(logger)
    /\ Len(logger) <= Fetched
    /\ Idle => Len(logger) = Len(Returned)
    /\ \A k \in 1..Len(logger) :
          /\ logger[k].item = k
          /\ logger[k].msg = Message(name, logger[k].elapsed, k)
    /\ (IsFiniteSource /\ Drained) => Len(logger) = SourceLen

C2_Witness ==
    /\ IsFiniteSource
    /\ SourceLen = 3
    /\ Drained
    /\ Len(logger) = 3
    /\ logger[3].item = 3

\* C3: between retrieval attempts item_number equals the number of elements
\* returned to the caller so far; it starts at 0, only the increment of a
\* successful retrieval changes it, by exactly 1, and it never decreases.
C3_CounterCountsReturned ==
    /\ [](Idle => item_number = Len(Returned))
    /\ [][\/ item_number' = item_number
          \/ (pc = "count" /\ item_number' = item_number + 1)]_vars

C3_Witness ==
    /\ Idle
    /\ item_number = 2
    /\ Len(seen) = 4
    /\ \E i \in 1..Len(seen) : IsStop(seen[i])
    /\ \E i \in 1..Len(seen) : IsError(seen[i])

\* C4: when the upstream raises an error on the k-th retrieval, the caller
\* has received the same outcomes as the upstream produced, the k-th being
\* that error unchanged; the elements yielded before it were each returned
\* and logged, the counter equals their number, and the upstream was asked
\* exactly once per retrieval attempt (no retry).
C4_ErrorPropagates ==
    (Idle /\ upstream # <<>> /\ IsError(Last(upstream))) =>
        LET k == Len(upstream) IN
        /\ seen = upstream
        /\ seen[k] = iterator.script[k]
        /\ calls = k
        /\ iterator.pos = k
        /\ Len(logger) = YieldCount(SubSeq(upstream, 1, k - 1))
        /\ item_number = Len(logger)
        /\ (\A i \in 1..(k - 1) : IsYield(upstream[i])) =>
              (Len(Returned) = k - 1 /\ Len(logger) = k - 1 /\ item_number = k - 1)

C4_Witness ==
    /\ Idle
    /\ Len(upstream) = 3
    /\ IsYield(upstream[1])
    /\ IsYield(upstream[2])
    /\ IsError(upstream[3])
    /\ IsError(Last(seen))
    /\ item_number = 2

\* C5: when the upstream signals exhaustion the wrapper signals exhaustion on
\* that same attempt, with no log record and no change of the counter; over
\* an already exhausted source the first attempt signals exhaustion with no
\* record and the counter 0.
C5_ExhaustionPropagates ==
    (Idle /\ upstream # <<>> /\ IsStop(Last(upstream))) =>
        /\ Len(seen) = Len(upstream)
        /\ IsStop(Last(seen))
        /\ calls = Len(upstream)
        /\ Len(logger) = Fetched
        /\ item_number = Fetched
        /\ (Len(upstream) = 1 => (seen = <<StopIteration>> /\ logger = <<>> /\ item_number = 0))

C5_Witness ==
    /\ Idle
    /\ SourceLen = 0
    /\ seen = <<StopIteration>>
    /\ logger = <<>>
    /\ item_number = 0

\* C6 as stated: once the upstream has signalled exhaustion, every later
\* retrieval on the wrapper signals exhaustion, for any upstream source.
C6_ExhaustedIsTerminal ==
    \A i \in 1..Len(upstream) : \A j \in 1..Len(seen) :
        (i < j /\ IsStop(upstream[i])) => IsStop(seen[j])

\* C6 amended: the wrapper keeps no exhausted state of its own.  After the
\* upstream has signalled exhaustion, a retrieval on which the upstream
\* signals exhaustion again ends with exhaustion signalled to the caller, no
\* element returned, no log record and the counter unchanged.
C6_ExhaustionMirrored ==
    [][((\E i \in 1..Len(upstream) : IsStop(upstream[i]))
          /\ Len(upstream') = Len(upstream) + 1
          /\ IsStop(Last(upstream')))
        => /\ seen' = Append(seen, StopIteration)
           /\ logger' = logger
           /\ item_number' = item_number
           /\ pc' = "idle"]_vars

C6_Witness ==
    /\ Idle
    /\ Len(seen) >= 3
    /\ IsYield(seen[1])
    /\ IsStop(seen[Len(seen) - 1])
    /\ IsStop(Last(seen))

\* C7: every log record is at warning severity; with display name "demo" and
\* an elapsed time of zero the k-th message is
\* "demo iterator: 0.0s for item #k", and the source [a, b, c] drained with
\* zero delays gives the output [a, b, c].
DemoMessages ==
    <<"demo iterator: 0.0s for item #1",
      "demo iterator: 0.0s for item #2",
      "demo iterator: 0.0s for item #3",
      "demo iterator: 0.0s for item #4",
      "demo iterator: 0.0s for item #5">>

C7_MessageFormat ==
    /\ \A k \in 1..Len(logger) :
          /\ logger[k].level = "WARNING"
          /\ (name = "demo" /\ logger[k].elapsed = ZeroElapsed /\ k <= Len(DemoMessages))
                => logger[k].msg = DemoMessages[k]
          /\ (name = "obs" /\ logger[k].elapsed = [neg |-> FALSE, ms |-> 62] /\ k = 1)
                => logger[k].msg = "obs iterator: 0.062s for item #1"
          /\ (name = "obs" /\ logger[k].elapsed = [neg |-> TRUE, ms |-> 62] /\ k = 2)
                => logger[k].msg = "obs iterator: -0.062s for item #2"
    /\ (iterator.script = <<Yield("a"), Yield("b"), Yield("c")>> /\ Drained)
          => Returned = <<"a", "b", "c">>

C7_Witness ==
    /\ name = "demo"
    /\ iterator.script = <<Yield("a"), Yield("b"), Yield("c")>>
    /\ Drained
    /\ Returned = <<"a", "b", "c">>
    /\ Len(logger) = 3
    /\ \A k \in 1..3 : logger[k].elapsed = ZeroElapsed /\ logger[k].msg = DemoMessages[k]

\* C8 as stated: the elapsed time of every log record is >= 0 and is
\* end_time - start_time rounded to 3 decimals, whatever the two clock
\* readings were.
C8_ElapsedNonNegative ==
    /\ pc \in {"count", "log", "return"} =>
          /\ elapsed_time = round(end_time - start_time)
          /\ NonNegative(elapsed_time)
    /\ \A k \in 1..Len(logger) : NonNegative(logger[k].elapsed)

\* C9: one upstream request per retrieval call and no look-ahead: between
\* calls the requests made equal the calls made, during a call at most the
\* request of that call is outstanding, and when a request is about to be
\* made every element fetched so far has been logged and returned.
C9_NoLookAhead ==
    /\ Idle => Len(upstream) = calls
    /\ pc = "try" => (Len(upstream) = calls - 1 /\ Len(logger) = Fetched
                        /\ Len(Returned) = Fetched)
    /\ pc \notin {"idle", "try"} => Len(upstream) = calls
    /\ Fetched <= Len(Returned) + 1
    /\ iterator.pos = IF Len(upstream) < SourceLen THEN Len(upstream) ELSE SourceLen
    /\ Len(seen) <= Len(upstream)

C9_Witness ==
    /\ pc = "try"
    /\ calls = 3
    /\ Len(upstream) = 2
    /\ Fetched = 2
    /\ Len(logger) = 2
    /\ Len(Returned) = 2

\* C10: __iter__ returns the wrapper itself and changes nothing: counter,
\* name, upstream position and emitted records are as before, so the
\* numbering of the records goes on from the current counter.
C10_IterIsIdentity ==
    /\ [][iter_result' # iter_result =>
            /\ iter_result'.ret = "self"
            /\ item_number' = item_number
            /\ name' = name
            /\ iterator' = iterator
            /\ logger' = logger
            /\ pc' = pc]_vars
    /\ [](iter_result.ret # "none" =>
            /\ iter_result.at <= item_number
            /\ \A k \in 1..Len(logger) : logger[k].item = k
            /\ Idle => item_number = Len(Returned))

C10_Witness ==
    /\ Idle
    /\ iter_result = [ret |-> "self", at |-> 1]
    /\ item_number = 3
    /\ Len(logger) = 3
    /\ logger[2].item = 2
    /\ logger[3].item = 3

=============================================================================
